---- MODULE Spec2Model ----
(***************************************************************************)
(* fancytable: a rectangular grid of multi-line text cells rendered with   *)
(* box-drawing borders.  The module models                                 *)
(*   - FancyCell          (src/src/cell.rs),                                *)
(*   - the border algebra (src/src/style/border.rs),                        *)
(*   - FancyTable and its Display implementation (src/src/table.rs).        *)
(*                                                                         *)
(* A text is a sequence of characters; a character is a one-element        *)
(* string.  "a" is a narrow character (display width 1), "W" a wide one    *)
(* (display width 2), "\n" the line feed and " " the space.  The alphabet  *)
(* holds no escape byte, so strip_ansi_escapes::strip_str leaves every     *)
(* modelled line as it is, and no carriage return.                         *)
(*                                                                         *)
(* table.rs calls cell.get_height(), cell.get_width() and cell.get_line(i) *)
(* without a ColumnWidth; the table is modelled with ColumnWidth::Dynamic. *)
(***************************************************************************)
EXTENDS Integers, Sequences, FiniteSets, TLC

VARIABLES
    \* ---- FancyTable (table.rs:8-18)
    cells,                      \* cells[row][col], rows and columns counted from 1 here
    added_column_first,         \* the field _added_column_first
    vertical_separator_styles,
    horizontal_separator_styles,
    \* ---- the caller of the table
    status,                     \* "ok", or how the last call ended the thread
    content,                    \* the text block FancyTable::new is given
    calls,                      \* the last two calls made on the table, oldest first
    out,                        \* whether the table was rendered since its last change, and the text
    edits,                      \* number of calls made on the table since its construction
    \* ---- a FancyCell on its own
    cell,
    cellOp,                     \* the last operation on that cell
    \* ---- inputs and results of the edge merge
    ma, mb, mc, merged,
    \* ---- a junction on its own
    junction,                   \* the arguments of get_center_symbol
    symbol                      \* its result, once computed

tableVars == <<cells, added_column_first, vertical_separator_styles,
               horizontal_separator_styles>>
callerVars == <<status, content, calls, out, edits>>
cellVars == <<cell, cellOp>>
mergeVars == <<ma, mb, mc, merged>>
junctionVars == <<junction, symbol>>
vars == <<tableVars, callerVars, cellVars, mergeVars, junctionVars>>

-----------------------------------------------------------------------------
(* Bounds of the model *)

\* longest text given to FancyCell::new / set_content
MaxTextLen == 3
\* largest padding a cell is given
MaxPadding == 2
\* largest padding increase compared by the width law
MaxDelta == 2
\* calls made on a table after its construction
MaxCalls == 3
\* largest n given to add_rows / add_columns
MaxN == 2
\* largest row and column index given to set
MaxIdx == MaxN - 1
\* rows and columns of the text given to FancyTable::new before the calls
MaxInitDim == 2
\* rows and columns of the text given to FancyTable::new on its own
MaxNewDim == 2
\* rows and columns of a table before it is styled and rendered
MaxRenderDim == 2
\* cells of a table before it is styled and rendered
MaxRenderCells == 4
\* changes made to a table before it is rendered
MaxEdits == 2

-----------------------------------------------------------------------------
(* Helpers *)

Max2(a, b) == IF a >= b THEN a ELSE b

\* the largest member of a finite set of naturals; Iterator::max().unwrap_or(0)
MaxOr0(S) == IF S = {} THEN 0 ELSE CHOOSE m \in S : \A x \in S : x <= m

RECURSIVE SumTo(_, _)
\* f[1] + ... + f[n]
SumTo(f, n) == IF n = 0 THEN 0 ELSE SumTo(f, n - 1) + f[n]

\* n copies of x
Repeat(x, n) == [i \in 1..n |-> x]

\* all sequences over S of length at most n
SeqUpTo(S, n) == UNION {[1..k -> S] : k \in 0..n}

NL == "\n"
SP == " "

\* Option<T>: None is the empty sequence, Some(x) the sequence of x alone
None == <<>>
Some(x) == <<x>>
unwrap_or(o, d) == IF o = None THEN d ELSE o[1]

-----------------------------------------------------------------------------
(* style/border.rs: the line styles *)

BorderStyles == {"Single", "Double"}
BorderStyle_default == "Single"

BorderLineStyles == {"Solid", "Dashed", "Dotted", "None"}

\* the discriminant of a BorderLineStyle, which #[derive(Ord)] orders by
Discriminant(s) ==
    CASE s = "Solid" -> 0
      [] s = "Dashed" -> 1
      [] s = "Dotted" -> 2
      [] s = "None" -> 3

\* a merge that ranks None lowest instead of highest
max_NoneLowest(a, b) ==
    LET rank(s) == IF s = "None" THEN 0 - 1 ELSE Discriminant(s)
    IN  IF rank(a) > rank(b) THEN a ELSE b

\* Ord::max(a, b): a when a > b, else b
max(a, b) == IF Discriminant(a) > Discriminant(b) THEN a ELSE b

CellBorderStyle_default ==
    [top |-> "Solid", left |-> "Solid", right |-> "Solid", bottom |-> "Solid"]

\* The glyphs are named by their code points: "U2500" is U+2500.

\* get_horizontal_symbol(line, style); the arms are tried in the order written
get_horizontal_symbol(line, style) ==
    CASE line = "Solid" /\ style = "Single" -> "U2500"
      [] line = "Dashed" /\ style = "Single" -> "U2574"
      [] line = "Dotted" /\ style = "Single" -> "U2504"
      [] line = "None" -> SP
      [] line # "None" /\ style = "Double" -> "U2550"

\* get_vertical_symbol(line, style)
get_vertical_symbol(line, style) ==
    CASE line = "Solid" /\ style = "Single" -> "U2502"
      [] line = "Dashed" /\ style = "Single" -> "U2575"
      [] line = "Dotted" /\ style = "Single" -> "U2506"
      [] line = "None" -> SP
      [] line # "None" /\ style = "Double" -> "U2551"

\* style_based_selection(hor_style, vert_style, ss, ds, sd, dd)
style_based_selection(hor_style, vert_style, ss, ds, sd, dd) ==
    CASE hor_style = "Single" /\ vert_style = "Single" -> ss
      [] hor_style = "Double" /\ vert_style = "Single" -> ds
      [] hor_style = "Single" /\ vert_style = "Double" -> sd
      [] hor_style = "Double" /\ vert_style = "Double" -> dd

\* get_center_symbol(top, left, right, bottom, hor_style, vert_style)
get_center_symbol(top, left, right, bottom, hor_style, vert_style) ==
    LET arms == <<top, left, right, bottom>>
        sel(ss, ds, sd, dd) == style_based_selection(hor_style, vert_style, ss, ds, sd, dd)
    IN  CASE arms = <<FALSE, FALSE, FALSE, FALSE>> -> SP
          [] arms = <<TRUE, TRUE, TRUE, TRUE>> -> sel("U253C", "U256A", "U256B", "U256C")
          [] arms = <<FALSE, TRUE, TRUE, TRUE>> -> sel("U252C", "U2564", "U2565", "U2566")
          [] arms = <<TRUE, TRUE, TRUE, FALSE>> -> sel("U2534", "U2567", "U2568", "U2569")
          [] arms = <<TRUE, FALSE, TRUE, TRUE>> -> sel("U251C", "U255E", "U2568", "U255F")
          [] arms = <<TRUE, TRUE, FALSE, TRUE>> -> sel("U2524", "U2561", "U2562", "U2563")
          [] arms = <<FALSE, TRUE, TRUE, FALSE>> ->
                IF hor_style = "Single" THEN "U2500" ELSE "U2550"
          [] arms = <<TRUE, FALSE, FALSE, TRUE>> ->
                IF vert_style = "Single" THEN "U2502" ELSE "U2551"
          [] arms = <<FALSE, FALSE, TRUE, TRUE>> -> sel("U250C", "U2552", "U2553", "U2554")
          [] arms = <<FALSE, TRUE, FALSE, TRUE>> -> sel("U2510", "U2555", "U2556", "U2557")
          [] arms = <<TRUE, FALSE, TRUE, FALSE>> -> sel("U2514", "U2558", "U2559", "U255A")
          [] arms = <<TRUE, TRUE, FALSE, FALSE>> -> sel("U2518", "U255B", "U255C", "U255D")
          [] arms = <<TRUE, FALSE, FALSE, FALSE>> ->
                IF vert_style = "Single" THEN "U2575" ELSE "U2551"
          [] arms = <<FALSE, TRUE, FALSE, FALSE>> ->
                IF hor_style = "Single" THEN "U2574" ELSE "U2550"
          [] arms = <<FALSE, FALSE, TRUE, FALSE>> ->
                IF hor_style = "Single" THEN "U2576" ELSE "U2550"
          [] arms = <<FALSE, FALSE, FALSE, TRUE>> ->
                IF vert_style = "Single" THEN "U2577" ELSE "U2551"

\* an arm computed from the first cell's edge alone where both cells exist
has_segment_FirstCellOnly(c1, e1, c2, e2) ==
    CASE c1 # None /\ c2 # None -> c1[1].border_style[e1] # "None"
      [] c1 # None /\ c2 = None -> c1[1].border_style[e1] # "None"
      [] c1 = None /\ c2 # None -> c2[1].border_style[e2] # "None"
      [] c1 = None /\ c2 = None -> FALSE

\* one arm of a junction: the edges e1 of cell c1 and e2 of cell c2 that face
\* each other, either cell possibly absent
has_segment(c1, e1, c2, e2) ==
    CASE c1 # None /\ c2 # None -> max(c1[1].border_style[e1], c2[1].border_style[e2]) # "None"
      [] c1 # None /\ c2 = None -> c1[1].border_style[e1] # "None"
      [] c1 = None /\ c2 # None -> c2[1].border_style[e2] # "None"
      [] c1 = None /\ c2 = None -> FALSE

\* get_common_cell_border_symbol(top_left, top_right, bottom_left, bottom_right,
\* hor_style, vert_style), the cells given as Options
get_common_cell_border_symbol(top_left, top_right, bottom_left, bottom_right, hor_style, vert_style) ==
    LET top == has_segment(top_left, "right", top_right, "left")
        left == has_segment(top_left, "bottom", bottom_left, "top")
        right == has_segment(top_right, "bottom", bottom_right, "top")
        bottom == has_segment(bottom_left, "right", bottom_right, "left")
    IN  get_center_symbol(top, left, right, bottom, hor_style, vert_style)

-----------------------------------------------------------------------------
(* cell.rs *)

\* unicode_width of one character
CharWidth(ch) == IF ch = "W" THEN 2 ELSE 1

RECURSIVE StrWidth(_)
\* UnicodeWidthStr::width
StrWidth(s) == IF s = <<>> THEN 0 ELSE CharWidth(Head(s)) + StrWidth(Tail(s))

RECURSIVE FirstNL(_, _)
\* index of the first line feed of s at or after i; Len(s) + 1 when there is none
FirstNL(s, i) ==
    IF i > Len(s) THEN Len(s) + 1
    ELSE IF s[i] = NL THEN i ELSE FirstNL(s, i + 1)

RECURSIVE lines(_)
\* str::lines: the pieces between line feeds; a final line feed ends the last
\* line and opens no further one, and the empty text has no line at all
lines(s) ==
    IF s = <<>> THEN <<>>
    ELSE LET k == FirstNL(s, 1)
         IN  <<SubSeq(s, 1, k - 1)>> \o
             (IF k >= Len(s) THEN <<>> ELSE lines(SubSeq(s, k + 1, Len(s))))

multiline_from_string(s) == lines(s)

FancyCell_default ==
    [content |-> <<<<SP>>>>, border_style |-> CellBorderStyle_default, padding |-> 1]

FancyCell_new(text) ==
    [FancyCell_default EXCEPT !.content = multiline_from_string(text)]

set_content(c, text) == [c EXCEPT !.content = multiline_from_string(text)]

\* get_height(ColumnWidth::Dynamic)
get_height(c) == Len(c.content)

\* get_line(line, ColumnWidth::Dynamic), line counted from 0
get_line(c, line) ==
    IF line + 1 \in 1..Len(c.content)
    THEN Some(Repeat(SP, c.padding) \o c.content[line + 1] \o Repeat(SP, c.padding))
    ELSE None

\* get_width(ColumnWidth::Dynamic)
get_width(c) == MaxOr0({StrWidth(get_line(c, i)[1]) : i \in 0..(Len(c.content) - 1)})

-----------------------------------------------------------------------------
(* Specification of one cell: constructors and setters of FancyCell *)

Alphabet == {"a", "W", NL}
Texts == SeqUpTo(Alphabet, MaxTextLen)
\* what set_line is given: one line, without a line feed
LineTexts == SeqUpTo(Alphabet \ {NL}, MaxTextLen - 1)

NotRendered == [done |-> FALSE, text |-> <<>>]

NotMerged == [done |-> FALSE, ab |-> "Solid", ba |-> "Solid", orders |-> {},
              aNone |-> "Solid", noneA |-> "Solid"]

IdleTable ==
    /\ cells = <<>>
    /\ added_column_first = FALSE
    /\ vertical_separator_styles = <<>>
    /\ horizontal_separator_styles = <<>>
    /\ status = "ok"
    /\ content = <<>>
    /\ calls = <<>>
    /\ out = NotRendered
    /\ edits = 0

IdleCell == cell = FancyCell_default /\ cellOp = "default"

IdleMerge == ma = "Solid" /\ mb = "Solid" /\ mc = "Solid" /\ merged = NotMerged

IdleJunction ==
    /\ junction = [top |-> FALSE, left |-> FALSE, right |-> FALSE, bottom |-> FALSE,
                   hor_style |-> BorderStyle_default, vert_style |-> BorderStyle_default]
    /\ symbol = None

InitCell ==
    /\ IdleTable
    /\ IdleMerge
    /\ IdleJunction
    /\ \/ cell = FancyCell_default /\ cellOp = "default"
       \/ \E t \in Texts : cell = FancyCell_new(t) /\ cellOp = "new"

CellSetContent(t) ==
    /\ cellOp # "panic"
    /\ cell' = set_content(cell, t)
    /\ cellOp' = "set_content"
    /\ UNCHANGED <<tableVars, callerVars, mergeVars, junctionVars>>

\* the public field padding
CellSetPadding(p) ==
    /\ cellOp # "panic"
    /\ cell' = [cell EXCEPT !.padding = p]
    /\ cellOp' = "padding"
    /\ UNCHANGED <<tableVars, callerVars, mergeVars, junctionVars>>

\* set_line(line, text): content[line] = text, an index panic past the end
CellSetLine(i, t) ==
    /\ cellOp # "panic"
    /\ IF i \in 1..Len(cell.content)
       THEN cell' = [cell EXCEPT !.content[i] = t] /\ cellOp' = "set_line"
       ELSE cell' = cell /\ cellOp' = "panic"
    /\ UNCHANGED <<tableVars, callerVars, mergeVars, junctionVars>>

NextCell ==
    \/ \E t \in Texts : CellSetContent(t)
    \/ \E p \in 0..MaxPadding : CellSetPadding(p)
    \/ \E i \in 1..MaxTextLen, t \in LineTexts : CellSetLine(i, t)

SpecCell == InitCell /\ [][NextCell]_vars

-----------------------------------------------------------------------------
(* table.rs: FancyTable.  A table value is the record of its four fields;   *)
(* an operation that can end the thread returns the table it leaves behind  *)
(* and how it ended: "ok", "panic" (an unwinding panic) or "abort" (the     *)
(* allocator gives up).                                                     *)

Table(c, f, v, h) ==
    [cells |-> c, added_column_first |-> f,
     vertical_separator_styles |-> v, horizontal_separator_styles |-> h]

\* #[derive(Default)]: every Vec empty, the flag false
FancyTable_default == Table(<<>>, FALSE, <<>>, <<>>)

\* a constructor that pads every row to the shortest row instead of the longest
new_PadToShortest(text) ==
    LET built == [r \in 1..Len(text) |-> [c \in 1..Len(text[r]) |-> FancyCell_new(text[r][c])]]
        columns == IF text = <<>> THEN 0
                   ELSE CHOOSE m \in {Len(built[r]) : r \in 1..Len(built)} :
                            \A r \in 1..Len(built) : m <= Len(built[r])
    IN  Table(built, FALSE,
              Repeat(BorderStyle_default, Max2(columns + 1, 2)),
              Repeat(BorderStyle_default, Max2(Len(built) + 1, 2)))

\* FancyTable::new(content)
new(text) ==
    LET built == [r \in 1..Len(text) |-> [c \in 1..Len(text[r]) |-> FancyCell_new(text[r][c])]]
        columns == MaxOr0({Len(built[r]) : r \in 1..Len(built)})
        filled == [r \in 1..Len(built) |->
                      built[r] \o Repeat(FancyCell_default, columns - Len(built[r]))]
    IN  Table(filled, FALSE,
              Repeat(BorderStyle_default, Max2(columns + 1, 2)),
              Repeat(BorderStyle_default, Max2(Len(filled) + 1, 2)))

get_row_count(t) == Len(t.cells)

get_column_count(t) == IF Len(t.cells) # 0 THEN Len(t.cells[1]) ELSE 0

\* get(row_idx, col_idx), indices from 0
get(t, row_idx, col_idx) ==
    IF row_idx + 1 \in 1..Len(t.cells)
    THEN IF col_idx + 1 \in 1..Len(t.cells[row_idx + 1])
         THEN Some(t.cells[row_idx + 1][col_idx + 1])
         ELSE None
    ELSE None

\* get_cell(row, col) with signed indices
get_cell(t, row, col) == IF row < 0 \/ col < 0 THEN None ELSE get(t, row, col)

\* the loop of add_rows: rows default rows of the width of row 0, and one
\* horizontal slot for each
push_rows(t, rows) ==
    LET cols == IF Len(t.cells) > 0 THEN Len(t.cells[1]) ELSE 0
    IN  [t EXCEPT
            !.cells = @ \o Repeat(Repeat(FancyCell_default, cols), rows),
            !.horizontal_separator_styles = @ \o Repeat(BorderStyle_default, rows)]

\* an add_rows that pushes n rows whether or not add_columns made a row already
add_rows_IgnoresFlag(t, n) ==
    {[t |-> push_rows([t EXCEPT !.added_column_first = FALSE], n), st |-> "ok"]}

\* add_rows(n): the set of ways the call can end.  With the flag set and
\* n = 0, rows -= 1 underflows: a build with overflow checks panics there, a
\* build without them wraps to usize::MAX and the loop pushes rows until the
\* allocator aborts the process.
add_rows(t, n) ==
    LET cleared == [t EXCEPT !.added_column_first = FALSE]
    IN  IF t.added_column_first
        THEN IF n = 0
             THEN {[t |-> cleared, st |-> "panic"], [t |-> cleared, st |-> "abort"]}
             ELSE {[t |-> push_rows(cleared, n - 1), st |-> "ok"]}
        ELSE {[t |-> push_rows(t, n), st |-> "ok"]}

\* an add_columns that extends row 0 only
add_columns_FirstRowOnly(t, n) ==
    LET seeded == IF Len(t.cells) = 0
                  THEN [t EXCEPT !.cells = <<<<>>>>, !.added_column_first = TRUE]
                  ELSE t
    IN  [seeded EXCEPT
            !.cells[1] = @ \o Repeat(FancyCell_default, n),
            !.vertical_separator_styles = @ \o Repeat(BorderStyle_default, n)]

\* add_columns(n)
add_columns(t, n) ==
    LET seeded == IF Len(t.cells) = 0
                  THEN [t EXCEPT !.cells = <<<<>>>>, !.added_column_first = TRUE]
                  ELSE t
    IN  [seeded EXCEPT
            !.cells = [r \in 1..Len(@) |-> @[r] \o Repeat(FancyCell_default, n)],
            !.vertical_separator_styles = @ \o Repeat(BorderStyle_default, n)]

\* set(row_idx, col_idx, cell), indices from 0: the table left behind, how the
\* call ended and the value returned.  self.cells[row_idx] panics when the row
\* growth left the grid with row_idx rows or fewer.
set(t, row_idx, col_idx, c) ==
    LET grow == row_idx >= Len(t.cells)
        afterRows == IF grow
                     THEN (CHOOSE o \in add_rows(t, row_idx - Len(t.cells) + 1) : TRUE).t
                     ELSE t
    IN  IF row_idx >= Len(afterRows.cells)
        THEN [t |-> afterRows, st |-> "panic", edited |-> TRUE]
        ELSE LET width == Len(afterRows.cells[row_idx + 1])
                 growCols == col_idx >= width
                 afterCols == IF growCols
                              THEN add_columns(afterRows, col_idx - width + 1)
                              ELSE afterRows
             IN  [t |-> [afterCols EXCEPT !.cells[row_idx + 1][col_idx + 1] = c],
                  st |-> "ok", edited |-> grow \/ growCols]

\* get_mut(row_idx, col_idx) followed by an assignment to one edge of
\* border_style; the table is left alone when there is no such cell
set_border_style(t, row_idx, col_idx, edge, style) ==
    IF get(t, row_idx, col_idx) = None THEN t
    ELSE [t EXCEPT !.cells[row_idx + 1][col_idx + 1].border_style[edge] = style]

\* get_mut(row_idx, col_idx) followed by set_content(text)
set_cell_content(t, row_idx, col_idx, text) ==
    IF get(t, row_idx, col_idx) = None THEN t
    ELSE [t EXCEPT !.cells[row_idx + 1][col_idx + 1] = set_content(@, text)]

get_vertical_separator_style(t, idx) ==
    IF idx + 1 \in 1..Len(t.vertical_separator_styles)
    THEN Some(t.vertical_separator_styles[idx + 1]) ELSE None

get_horizontal_separator_style(t, idx) ==
    IF idx + 1 \in 1..Len(t.horizontal_separator_styles)
    THEN Some(t.horizontal_separator_styles[idx + 1]) ELSE None

\* set_vertical_separator_style(idx, style), for an idx within the track
set_vertical_separator_style(t, idx, style) ==
    [t EXCEPT !.vertical_separator_styles[idx + 1] = style]

\* set_horizontal_separator_style(idx, style), for an idx within the track
set_horizontal_separator_style(t, idx, style) ==
    [t EXCEPT !.horizontal_separator_styles[idx + 1] = style]

\* border symbols computed from the cell's own edges alone
get_cell_border_symbols_OwnEdges(t, cell_row, cell_col) ==
    LET cell_style == unwrap_or(get(t, cell_row, cell_col), FancyCell_default).border_style
        hor(i) == unwrap_or(get_horizontal_separator_style(t, i), BorderStyle_default)
        vert(i) == unwrap_or(get_vertical_separator_style(t, i), BorderStyle_default)
    IN  [top |-> get_horizontal_symbol(cell_style.top, hor(cell_row)),
         left |-> get_vertical_symbol(cell_style.left, vert(cell_col)),
         right |-> get_vertical_symbol(cell_style.right, vert(cell_col + 1)),
         bottom |-> get_horizontal_symbol(cell_style.bottom, hor(cell_row + 1))]

\* get_cell_border_symbols(table, cell_row, cell_col): top, left, right, bottom
get_cell_border_symbols(t, cell_row, cell_col) ==
    LET style_of(o) == unwrap_or(o, FancyCell_default).border_style
        cell_style == style_of(get(t, cell_row, cell_col))
        top_style == style_of(get_cell(t, cell_row - 1, cell_col))
        left_style == style_of(get_cell(t, cell_row, cell_col - 1))
        right_style == style_of(get(t, cell_row, cell_col + 1))
        bottom_style == style_of(get(t, cell_row + 1, cell_col))
        top_hor_style ==
            unwrap_or(get_horizontal_separator_style(t, cell_row), BorderStyle_default)
        bottom_hor_style ==
            unwrap_or(get_horizontal_separator_style(t, cell_row + 1), BorderStyle_default)
        left_vert_style ==
            unwrap_or(get_vertical_separator_style(t, cell_col), BorderStyle_default)
        right_vert_style ==
            unwrap_or(get_vertical_separator_style(t, cell_col + 1), BorderStyle_default)
    IN  [top |-> get_horizontal_symbol(max(cell_style.top, top_style.bottom), top_hor_style),
         left |-> get_vertical_symbol(max(cell_style.left, left_style.right), left_vert_style),
         right |-> get_vertical_symbol(max(cell_style.right, right_style.left), right_vert_style),
         bottom |-> get_horizontal_symbol(max(cell_style.bottom, bottom_style.top),
                                          bottom_hor_style)]

\* get_row_height(row_idx), row_idx from 0
get_row_height(t, row_idx) ==
    MaxOr0({get_height(t.cells[row_idx + 1][c]) : c \in 1..Len(t.cells[row_idx + 1])})

\* get_col_widths(): widths[i + 1] is the width of column i
get_col_widths(t) ==
    [i \in 1..get_column_count(t) |->
        MaxOr0({get_width(t.cells[r][i]) : r \in 1..Len(t.cells)})]

RECURSIVE Concat(_)
\* the pieces written one after the other
Concat(pieces) == IF pieces = <<>> THEN <<>> ELSE Head(pieces) \o Concat(Tail(pieces))

\* format!("{content:width$}"): the text, filled with spaces on the right up to
\* width characters
pad_to_width(text, width) == text \o Repeat(SP, width - Len(text))

\* write_top_border(f, row_idx, widths): what it writes
write_top_border(t, row_idx, widths) ==
    LET columns == get_column_count(t)
        piece(col_idx) ==
            LET cell_here == get(t, row_idx, col_idx)
                top_left == get_cell(t, row_idx - 1, col_idx - 1)
                top_right == get_cell(t, row_idx - 1, col_idx)
                left == get_cell(t, row_idx, col_idx - 1)
                hor_style ==
                    unwrap_or(get_horizontal_separator_style(t, row_idx), BorderStyle_default)
                vert_style ==
                    unwrap_or(get_vertical_separator_style(t, col_idx), BorderStyle_default)
            IN  <<get_common_cell_border_symbol(top_left, top_right, left, cell_here,
                                                hor_style, vert_style)>>
                \o (IF col_idx = columns THEN <<>>
                    ELSE Repeat(get_cell_border_symbols(t, row_idx, col_idx).top,
                                widths[col_idx + 1]))
    IN  Concat([k \in 1..(columns + 1) |-> piece(k - 1)])

\* one content line of a row: the body of the loop over line in write_row,
\* without the line break
write_row_line(t, row_idx, line, widths) ==
    LET piece(col_idx) ==
            LET symbols == get_cell_border_symbols(t, row_idx, col_idx)
                text == unwrap_or(get_line(t.cells[row_idx + 1][col_idx + 1], line), <<>>)
            IN  (IF col_idx = 0 THEN <<symbols.left>> ELSE <<>>)
                \o pad_to_width(text, widths[col_idx + 1])
                \o <<symbols.right>>
    IN  Concat([k \in 1..get_column_count(t) |-> piece(k - 1)])

\* a write_row that ends a row of height 0 with a line break, too
write_row_AlwaysBreaks(t, row_idx, widths) ==
    LET height == get_row_height(t, row_idx)
    IN  Concat([k \in 1..height |->
                   write_row_line(t, row_idx, k - 1, widths)
                   \o (IF k - 1 # height - 1 THEN <<NL>> ELSE <<>>)])
        \o <<NL>>

\* write_row(f, row_idx, widths): what it writes
write_row(t, row_idx, widths) ==
    LET height == get_row_height(t, row_idx)
    IN  IF height > 0
        THEN Concat([k \in 1..height |->
                        write_row_line(t, row_idx, k - 1, widths)
                        \o (IF k - 1 # height - 1 THEN <<NL>> ELSE <<>>)])
             \o <<NL>>
        ELSE <<>>

\* <FancyTable as Display>::fmt: the characters written, in order
fmt(t) ==
    IF get_column_count(t) < 1 \/ get_row_count(t) < 1 THEN <<>>
    ELSE LET widths == get_col_widths(t)
             rows == get_row_count(t)
         IN  Concat([k \in 1..(rows + 1) |->
                        write_top_border(t, k - 1, widths)
                        \o (IF k - 1 = rows THEN <<>>
                            ELSE <<NL>> \o write_row(t, k - 1, widths))])

-----------------------------------------------------------------------------
(* Specification of the grid: a table built by FancyTable::default() or     *)
(* FancyTable::new, then add_rows, add_columns and set in any order.        *)

TheTable ==
    Table(cells, added_column_first, vertical_separator_styles, horizontal_separator_styles)

\* the table variables take the fields of t
Becomes(t) ==
    /\ cells' = t.cells
    /\ added_column_first' = t.added_column_first
    /\ vertical_separator_styles' = t.vertical_separator_styles
    /\ horizontal_separator_styles' = t.horizontal_separator_styles

Is(t) ==
    /\ cells = t.cells
    /\ added_column_first = t.added_column_first
    /\ vertical_separator_styles = t.vertical_separator_styles
    /\ horizontal_separator_styles = t.horizontal_separator_styles

\* the record kept of a call: its arguments and the table it was made on
Call(op, a, b, c) ==
    [op |-> op, a |-> a, b |-> b, cell |-> c,
     rows0 |-> get_row_count(TheTable), cols0 |-> get_column_count(TheTable),
     flag0 |-> added_column_first,
     hlen0 |-> Len(horizontal_separator_styles), vlen0 |-> Len(vertical_separator_styles)]

\* the last two calls
Remember(c) == calls' = (IF Len(calls) = 2 THEN <<calls[2]>> ELSE calls) \o <<c>>

\* ragged text blocks of at most d rows of at most d texts, each text "a"
TextBlocks(d) == SeqUpTo(SeqUpTo({<<"a">>}, d), d)

\* the cell given to set: not the default cell
SetCell == FancyCell_new(<<"a">>)

Init ==
    /\ IdleCell
    /\ IdleMerge
    /\ IdleJunction
    /\ status = "ok"
    /\ content = <<>>
    /\ calls = <<>>
    /\ out = NotRendered
    /\ edits = 0
    /\ \/ Is(FancyTable_default)
       \/ \E text \in TextBlocks(MaxInitDim) : Is(new(text))

CanCall == status = "ok" /\ edits < MaxCalls

AddRows(n) ==
    /\ CanCall
    /\ \E o \in add_rows(TheTable, n) : Becomes(o.t) /\ status' = o.st
    /\ Remember(Call("add_rows", n, 0, FancyCell_default))
    /\ edits' = edits + 1
    /\ UNCHANGED <<content, out, cellVars, mergeVars, junctionVars>>

AddColumns(n) ==
    /\ CanCall
    /\ Becomes(add_columns(TheTable, n))
    /\ Remember(Call("add_columns", n, 0, FancyCell_default))
    /\ edits' = edits + 1
    /\ UNCHANGED <<status, content, out, cellVars, mergeVars, junctionVars>>

Set(r, c) ==
    /\ CanCall
    /\ LET o == set(TheTable, r, c, SetCell)
       IN  Becomes(o.t) /\ status' = o.st
    /\ Remember(Call("set", r, c, SetCell))
    /\ edits' = edits + 1
    /\ UNCHANGED <<content, out, cellVars, mergeVars, junctionVars>>

Next ==
    \/ \E n \in 0..MaxN : AddRows(n)
    \/ \E n \in 0..MaxN : AddColumns(n)
    \/ \E r \in 0..MaxIdx, c \in 0..MaxIdx : Set(r, c)

Spec == Init /\ [][Next]_vars

-----------------------------------------------------------------------------
(* Specification of the constructor: FancyTable::new on a ragged text block *)

NewTexts == {<<>>, <<"a">>, <<"a", NL, "a">>}
NewBlocks == SeqUpTo(SeqUpTo(NewTexts, MaxNewDim), MaxNewDim)

InitNew ==
    /\ IdleCell
    /\ IdleMerge
    /\ IdleJunction
    /\ Is(FancyTable_default)
    /\ status = "unbuilt"
    /\ content \in NewBlocks
    /\ calls = <<>>
    /\ out = NotRendered
    /\ edits = 0

Construct ==
    /\ status = "unbuilt"
    /\ Becomes(new(content))
    /\ status' = "built"
    /\ UNCHANGED <<content, calls, out, edits, cellVars, mergeVars, junctionVars>>

NextNew == Construct

SpecNew == InitNew /\ [][NextNew]_vars

-----------------------------------------------------------------------------------------------------------------------------------------------------
(* Specifications of rendering: a table is built, changed a bounded number  *)
(* of times and rendered by Display::fmt.  The texts hold narrow characters *)
(* only, so that a column of width w takes w characters of every line.      *)
(*   SpecRender changes the edges of the cells and the separator weights of *)
(*   a table built by FancyTable::new on a block of "a" texts;              *)
(*   SpecShape changes the contents of the cells of such a table or of the  *)
(*   default table, grows it through set and blanks the borders of cells.   *)
(* A setter call that writes the value already there changes nothing and is *)
(* not counted as a change.                                                 *)

RenderTexts == {<<>>, <<NL>>, <<"a", NL, "a">>}

Edges == {"top", "left", "right", "bottom"}

RenderIdx == 0..(MaxRenderDim - 1)

\* the block of r rows of c texts "a"
Block(r, c) == Repeat(Repeat(<<"a">>, c), r)

InitRender ==
    /\ IdleCell
    /\ IdleMerge
    /\ IdleJunction
    /\ status = "ok"
    /\ content = <<>>
    /\ calls = <<>>
    /\ out = NotRendered
    /\ edits = 0
    /\ \E r \in 0..MaxRenderDim, c \in 0..MaxRenderDim :
            r * c <= MaxRenderCells /\ Is(new(Block(r, c)))

InitShape ==
    /\ IdleCell
    /\ IdleMerge
    /\ IdleJunction
    /\ status = "ok"
    /\ content = <<>>
    /\ calls = <<>>
    /\ out = NotRendered
    /\ edits = 0
    /\ \/ Is(FancyTable_default)
       \/ \E r \in 0..MaxRenderDim, c \in 0..MaxRenderDim :
            r * c <= MaxRenderCells /\ Is(new(Block(r, c)))

CanEdit == status = "ok" /\ edits < MaxEdits

Edited(t) ==
    /\ Becomes(t)
    /\ edits' = edits + 1
    /\ out' = NotRendered
    /\ UNCHANGED <<content, calls, cellVars, mergeVars, junctionVars>>

RenderSet(r, c) ==
    /\ CanEdit
    /\ LET o == set(TheTable, r, c, SetCell)
       IN  Edited(o.t) /\ status' = o.st

SetBorderStyle(r, c, edge, style) ==
    /\ CanEdit
    /\ get(TheTable, r, c) # None
    /\ get(TheTable, r, c)[1].border_style[edge] # style
    /\ Edited(set_border_style(TheTable, r, c, edge, style))
    /\ UNCHANGED status

\* every edge of the cell None
HideBorders(r, c) ==
    /\ CanEdit
    /\ get(TheTable, r, c) # None
    /\ Edited([TheTable EXCEPT !.cells[r + 1][c + 1].border_style = [e \in Edges |-> "None"]])
    /\ UNCHANGED status

SetCellContent(r, c, text) ==
    /\ CanEdit
    /\ get(TheTable, r, c) # None
    /\ Edited(set_cell_content(TheTable, r, c, text))
    /\ UNCHANGED status

SetVerticalSeparatorStyle(idx, style) ==
    /\ CanEdit
    /\ get_vertical_separator_style(TheTable, idx) \notin {None, Some(style)}
    /\ Edited(set_vertical_separator_style(TheTable, idx, style))
    /\ UNCHANGED status

SetHorizontalSeparatorStyle(idx, style) ==
    /\ CanEdit
    /\ get_horizontal_separator_style(TheTable, idx) \notin {None, Some(style)}
    /\ Edited(set_horizontal_separator_style(TheTable, idx, style))
    /\ UNCHANGED status

Render ==
    /\ status = "ok"
    /\ ~out.done
    /\ out' = [done |-> TRUE, text |-> fmt(TheTable)]
    /\ UNCHANGED <<tableVars, status, content, calls, edits, cellVars, mergeVars, junctionVars>>

NextRender ==
    \/ \E r \in RenderIdx, c \in RenderIdx, edge \in Edges, style \in BorderLineStyles :
          SetBorderStyle(r, c, edge, style)
    \/ \E idx \in 0..MaxRenderDim, style \in BorderStyles :
          SetVerticalSeparatorStyle(idx, style)
    \/ \E idx \in 0..MaxRenderDim, style \in BorderStyles :
          SetHorizontalSeparatorStyle(idx, style)
    \/ Render

SpecRender == InitRender /\ [][NextRender]_vars

NextShape ==
    \/ \E r \in RenderIdx, c \in RenderIdx : RenderSet(r, c)
    \/ \E r \in RenderIdx, c \in RenderIdx, text \in RenderTexts : SetCellContent(r, c, text)
    \/ \E r \in RenderIdx, c \in RenderIdx : HideBorders(r, c)
    \/ Render

SpecShape == InitShape /\ [][NextShape]_vars

-----------------------------------------------------------------------------
(* Specification of the edge merge: Ord::max on three line styles, as       *)
(* get_cell_border_symbols applies it to the facing edges of two cells      *)

InitMerge ==
    /\ IdleTable
    /\ IdleCell
    /\ IdleJunction
    /\ ma \in BorderLineStyles
    /\ mb \in BorderLineStyles
    /\ mc \in BorderLineStyles
    /\ merged = NotMerged

\* the three declarations in each of their six orders
Orders(a, b, c) ==
    {<<a, b, c>>, <<a, c, b>>, <<b, a, c>>, <<b, c, a>>, <<c, a, b>>, <<c, b, a>>}

MergeEdges ==
    /\ ~merged.done
    /\ merged' = [done |-> TRUE,
                  ab |-> max(ma, mb),
                  ba |-> max(mb, ma),
                  orders |-> {max(max(o[1], o[2]), o[3]) : o \in Orders(ma, mb, mc)}
                             \cup {max(o[1], max(o[2], o[3])) : o \in Orders(ma, mb, mc)},
                  aNone |-> max(ma, "None"),
                  noneA |-> max("None", ma)]
    /\ UNCHANGED <<ma, mb, mc, tableVars, callerVars, cellVars, junctionVars>>

NextMerge == MergeEdges

SpecMerge == InitMerge /\ [][NextMerge]_vars

-----------------------------------------------------------------------------
(* One call of get_center_symbol on any arguments (border.rs:101-136) *)

InitJunction ==
    /\ IdleTable
    /\ IdleCell
    /\ IdleMerge
    /\ junction \in [top : BOOLEAN, left : BOOLEAN, right : BOOLEAN, bottom : BOOLEAN,
                      hor_style : BorderStyles, vert_style : BorderStyles]
    /\ symbol = None

GetCenterSymbol ==
    /\ symbol = None
    /\ symbol' = Some(get_center_symbol(junction.top, junction.left, junction.right,
                                        junction.bottom, junction.hor_style,
                                        junction.vert_style))
    /\ UNCHANGED <<junction, tableVars, callerVars, cellVars, mergeVars>>

NextJunction == GetCenterSymbol

SpecJunction == InitJunction /\ [][NextJunction]_vars

-----------------------------------------------------------------------------
(* Claims about the grid, checked under Spec *)

LastCall == calls[Len(calls)]

\* C1 (rectangularity): in every state reached from FancyTable::new or the
\* default table by add_rows, add_columns and set, whether the last call
\* returned or panicked, all rows of the grid have the same number of cells.
C1_Rectangular ==
    \A i, j \in 1..Len(cells) : Len(cells[i]) = Len(cells[j])

\* a set that grew the grid by rows and by columns, on a grid of two rows or more
C1_Witness ==
    /\ calls # <<>>
    /\ LastCall.op = "set"
    /\ status = "ok"
    /\ Len(cells) >= 2
    /\ Len(cells) > LastCall.rows0
    /\ Len(cells[1]) > LastCall.cols0
    /\ LastCall.cols0 >= 1

\* C2 (set never fails): after every set(r, c, cell) the call has returned, the
\* grid has at least r + 1 rows and c + 1 columns and get(r, c) is the written
\* cell.
C2_SetAlwaysAddresses ==
    (calls # <<>> /\ LastCall.op = "set") =>
        /\ status = "ok"
        /\ get_row_count(TheTable) >= LastCall.a + 1
        /\ get_column_count(TheTable) >= LastCall.b + 1
        /\ get(TheTable, LastCall.a, LastCall.b) = Some(LastCall.cell)

\* C3 (column-first compensation): add_columns(m) on a grid of zero rows
\* followed by add_rows(n), n >= 1, leaves exactly n rows and m columns; an
\* add_rows(k) that follows another add_rows, or that finds the flag clear,
\* adds exactly k rows; and add_rows leaves the flag clear.
C3_ColumnFirstCompensation ==
    /\ (Len(calls) = 2 /\ calls[1].op = "add_columns" /\ calls[1].rows0 = 0
            /\ calls[2].op = "add_rows" /\ calls[2].a >= 1) =>
        /\ status = "ok"
        /\ get_row_count(TheTable) = calls[2].a
        /\ get_column_count(TheTable) = calls[1].a
    /\ (calls # <<>> /\ LastCall.op = "add_rows" /\ ~LastCall.flag0) =>
        /\ status = "ok"
        /\ get_row_count(TheTable) = LastCall.rows0 + LastCall.a
    /\ (Len(calls) = 2 /\ calls[1].op = "add_rows" /\ calls[2].op = "add_rows") =>
        /\ ~calls[2].flag0
        /\ get_row_count(TheTable) = calls[2].rows0 + calls[2].a
    /\ (calls # <<>> /\ LastCall.op = "add_rows") => ~added_column_first

\* add_columns(2) then add_rows(2) on the default table: the 2 x 2 grid
C3_Witness ==
    /\ Len(calls) = 2
    /\ calls[1].op = "add_columns" /\ calls[1].rows0 = 0 /\ calls[1].a = 2
    /\ calls[2].op = "add_rows" /\ calls[2].a = 2 /\ calls[2].flag0
    /\ get_row_count(TheTable) = 2
    /\ get_column_count(TheTable) = 2

\* C10 (separator tracks in step): in every state the two separator tracks
\* have the lengths FancyTable::new allocates for a grid of the same row and
\* column counts, every slot being Single.
C10_TracksInStep ==
    /\ Len(vertical_separator_styles) = Max2(get_column_count(TheTable) + 1, 2)
    /\ Len(horizontal_separator_styles) = Max2(get_row_count(TheTable) + 1, 2)
    /\ \A i \in 1..Len(vertical_separator_styles) : vertical_separator_styles[i] = "Single"
    /\ \A i \in 1..Len(horizontal_separator_styles) : horizontal_separator_styles[i] = "Single"

-----------------------------------------------------------------------------
(* Claim about the constructor, checked under SpecNew *)

\* C5 (construction from ragged text): the grid FancyTable::new builds has as
\* many rows as the input and as many columns as the longest input row; the
\* cell at (r, c) is the cell made from the input text where input row r has
\* an entry c, and the default cell elsewhere.
C5_NewPadsRaggedText ==
    status = "built" =>
        /\ get_row_count(TheTable) = Len(content)
        /\ get_column_count(TheTable) = MaxOr0({Len(content[r]) : r \in 1..Len(content)})
        /\ \A r \in 1..Len(cells) :
            /\ Len(cells[r]) = get_column_count(TheTable)
            /\ \A c \in 1..Len(cells[r]) :
                cells[r][c] = IF c <= Len(content[r])
                              THEN FancyCell_new(content[r][c])
                              ELSE FancyCell_default

\* a ragged block: two rows, the first shorter than the second, padded
C5_Witness ==
    /\ status = "built"
    /\ Len(content) = 2
    /\ Len(content[1]) = 1
    /\ Len(content[2]) = 2
    /\ content[1][1] = <<"a", NL, "a">>
    /\ Len(cells) = 2
    /\ Len(cells[1]) = 2
    /\ cells[1][2] = FancyCell_default
    /\ cells[1][1].content = <<<<"a">>, <<"a">>>>

-----------------------------------------------------------------------------
(* Claims about one cell, checked under SpecCell *)

\* C6 (content never empty): after FancyCell::new on any text and after any
\* sequence of set_content calls the cell holds at least one line, so its
\* height is at least 1.
C6_ContentNeverEmpty ==
    cellOp \in {"default", "new", "set_content", "padding", "set_line"} =>
        /\ Len(cell.content) >= 1
        /\ get_height(cell) >= 1

\* C8 (width monotonicity): for every cell reached through the constructors
\* and setters, raising the padding by d >= 1 raises get_width by exactly 2 * d.
C8_WidthMonotonic ==
    cellOp # "panic" =>
        \A d \in 1..MaxDelta :
            get_width([cell EXCEPT !.padding = @ + d]) = get_width(cell) + 2 * d

-----------------------------------------------------------------------------
(* Claim about the edge merge, checked under SpecMerge *)

\* C7 (merge algebra): the merge of two edge declarations is the same in
\* either order, three declarations merge to one result in every order and
\* grouping, and a merge with None is None on either side.
C7_MergeAlgebra ==
    merged.done =>
        /\ merged.ab = merged.ba
        /\ Cardinality(merged.orders) = 1
        /\ merged.aNone = "None"
        /\ merged.noneA = "None"

\* three different declarations, none of them None, merged
C7_Witness ==
    /\ merged.done
    /\ ma = "Dotted" /\ mb = "Solid" /\ mc = "Dashed"
    /\ merged.ab = "Dotted"
    /\ merged.orders = {"Dotted"}

-----------------------------------------------------------------------------
(* Claims about the rendered text: C9 is checked under SpecShape, C4 under   *)
(* SpecRender                                                               *)

RECURSIVE SplitLines(_)
\* the text cut at its line feeds: k line feeds give k + 1 lines
SplitLines(s) ==
    LET k == FirstNL(s, 1)
    IN  IF k > Len(s) THEN <<s>>
        ELSE <<SubSeq(s, 1, k - 1)>> \o SplitLines(SubSeq(s, k + 1, Len(s)))

RowCount == Len(cells)
ColCount == IF cells = <<>> THEN 0 ELSE Len(cells[1])

\* h_i: the largest number of content lines of a cell of row i (from 0)
RowHeight(i) == MaxOr0({Len(cells[i + 1][c].content) : c \in 1..Len(cells[i + 1])})

\* the width of column c (from 0): the widest padded line of its cells
ColWidth(c) ==
    MaxOr0(UNION {{2 * cells[r][c + 1].padding + Len(cells[r][c + 1].content[l]) :
                      l \in 1..Len(cells[r][c + 1].content)} : r \in 1..RowCount})

\* the line (from 1) of the rendered text that holds border line i (from 0)
BorderLineAt(i) == 1 + SumTo([j \in 1..i |-> RowHeight(j - 1) + 1], i)

\* the position (from 1) in a line of the junction or vertical segment left of
\* column c (from 0)
SeparatorAt(c) == 1 + SumTo([k \in 1..c |-> ColWidth(k - 1) + 1], c)

Widths == [k \in 1..ColCount |-> ColWidth(k - 1)]

\* C9 (shape of the rendered block): a grid with zero rows or zero columns
\* renders to the empty text; otherwise the text, cut at its line breaks, is
\* border line 0, the h_0 content lines of row 0, border line 1, ..., border
\* line R: R + 1 + sum of h_i lines, none of them empty, so that a row of
\* height 0 adds its border line only and no line break ends the text.
C9_RenderedShape ==
    out.done =>
        IF RowCount = 0 \/ ColCount = 0 THEN out.text = <<>>
        ELSE LET rendered == SplitLines(out.text)
             IN  /\ Len(rendered) =
                        RowCount + 1 + SumTo([i \in 1..RowCount |-> RowHeight(i - 1)], RowCount)
                 /\ \A n \in 1..Len(rendered) :
                        Len(rendered[n]) = SeparatorAt(ColCount)
                 /\ \A i \in 0..RowCount :
                        rendered[BorderLineAt(i)] = write_top_border(TheTable, i, Widths)
                 /\ \A i \in 0..(RowCount - 1) : \A l \in 1..RowHeight(i) :
                        rendered[BorderLineAt(i) + l] =
                            write_row_line(TheTable, i, l - 1, Widths)

\* two rows rendered, the first of height 0 and the second of height 2
C9_Witness ==
    /\ out.done
    /\ RowCount = 2
    /\ ColCount >= 1
    /\ RowHeight(0) = 0
    /\ RowHeight(1) = 2
    /\ Len(SplitLines(out.text)) = 5

\* an empty grid rendered
C9_WitnessEmpty ==
    /\ out.done
    /\ RowCount = 1
    /\ ColCount = 0
    /\ out.text = <<>>

EdgeOrder == <<"Solid", "Dashed", "Dotted", "None">>
EdgeRank(s) == CHOOSE k \in 1..4 : EdgeOrder[k] = s
\* the later of two styles in Solid < Dashed < Dotted < None
Stronger(a, b) == EdgeOrder[Max2(EdgeRank(a), EdgeRank(b))]

\* the weight of separator idx of a track, Single where the track has no slot
WeightAt(track, idx) == IF idx + 1 \in 1..Len(track) THEN track[idx + 1] ELSE "Single"

\* C4 (None wins on a shared edge): in the rendered text every character of
\* the edge shared by two adjacent cells is the segment glyph, under the
\* weight of that separator, of the stronger of the two facing edges in
\* Solid < Dashed < Dotted < None; it is blank when either edge is None, and
\* the symbols computed for the one cell and for the other agree on it.
C4_SharedEdge ==
    (out.done /\ RowCount >= 1 /\ ColCount >= 1) =>
        LET rendered == SplitLines(out.text)
        IN  /\ \A r \in 0..(RowCount - 1), c \in 0..(ColCount - 2) :
                LET a == cells[r + 1][c + 1].border_style.right
                    b == cells[r + 1][c + 2].border_style.left
                    glyph == get_vertical_symbol(
                                 Stronger(a, b), WeightAt(vertical_separator_styles, c + 1))
                IN  /\ \A l \in 1..RowHeight(r) :
                        rendered[BorderLineAt(r) + l][SeparatorAt(c + 1)] = glyph
                    /\ get_cell_border_symbols(TheTable, r, c).right = glyph
                    /\ get_cell_border_symbols(TheTable, r, c + 1).left = glyph
                    /\ ("None" \in {a, b}) => glyph = SP
            /\ \A r \in 0..(RowCount - 2), c \in 0..(ColCount - 1) :
                LET a == cells[r + 1][c + 1].border_style.bottom
                    b == cells[r + 2][c + 1].border_style.top
                    glyph == get_horizontal_symbol(
                                 Stronger(a, b), WeightAt(horizontal_separator_styles, r + 1))
                IN  /\ \A k \in 1..ColWidth(c) :
                        rendered[BorderLineAt(r + 1)][SeparatorAt(c) + k] = glyph
                    /\ get_cell_border_symbols(TheTable, r, c).bottom = glyph
                    /\ get_cell_border_symbols(TheTable, r + 1, c).top = glyph
                    /\ ("None" \in {a, b}) => glyph = SP

\* two cells side by side rendered, the left one's right edge None and the
\* right one's left edge Solid: the shared segment is blank
C4_Witness ==
    /\ out.done
    /\ RowCount >= 1
    /\ ColCount >= 2
    /\ RowHeight(0) >= 1
    /\ cells[1][1].border_style.right = "None"
    /\ cells[1][2].border_style.left = "Solid"
    /\ SplitLines(out.text)[2][SeparatorAt(1)] = SP

\* two cells one above the other rendered under a Double separator, the upper
\* one's bottom edge Dashed and the lower one's top edge Solid
C4_WitnessDouble ==
    /\ out.done
    /\ RowCount >= 2
    /\ ColCount >= 1
    /\ ColWidth(0) >= 1
    /\ cells[1][1].border_style.bottom = "Dashed"
    /\ cells[2][1].border_style.top = "Solid"
    /\ WeightAt(horizontal_separator_styles, 1) = "Double"
    /\ SplitLines(out.text)[BorderLineAt(1)][SeparatorAt(0) + 1] = "U2550"

\* ---------------------------------------------------------------------------
\* add_rows as a total, growing operation
\* ---------------------------------------------------------------------------

\* the step is a call of add_rows
IsAddRowsStep ==
    /\ edits' = edits + 1
    /\ calls' # <<>>
    /\ calls'[Len(calls')].op = "add_rows"

\* C11: every call of add_rows, with any n >= 0 and in any grid state (the
\* column-first flag set or not), completes: the number of rows it adds does
\* not go below zero, the row count does not decrease, the column count is
\* unchanged and every cell that existed keeps its coordinates and value.
C11_AddRowsTotal ==
    [][IsAddRowsStep =>
        /\ status' = "ok"
        /\ Len(cells') >= Len(cells)
        /\ get_column_count(Table(cells', added_column_first', vertical_separator_styles', horizontal_separator_styles'))
             = get_column_count(TheTable)
        /\ \A r \in 1..Len(cells) : cells'[r] = cells[r]]_vars

\* ---------------------------------------------------------------------------
\* Claims about junction glyphs, checked under SpecJunction
\* ---------------------------------------------------------------------------

Junctions == [top : BOOLEAN, left : BOOLEAN, right : BOOLEAN, bottom : BOOLEAN, hor_style : BorderStyles, vert_style : BorderStyles]

\* the shape has an arm on each axis: the cross, a T-junction or a corner
SpansBothAxes(j) == (j.top \/ j.bottom) /\ (j.left \/ j.right)

SameShape(j, k) == <<j.top, j.left, j.right, j.bottom>> = <<k.top, k.left, k.right, k.bottom>>

SameWeights(j, k) == j.hor_style = k.hor_style /\ j.vert_style = k.vert_style

GlyphOf(j) == get_center_symbol(j.top, j.left, j.right, j.bottom, j.hor_style, j.vert_style)

\* C12: the glyph computed for a shape that spans both axes is the glyph of
\* no other such shape under the same pair of weights, and of no other pair
\* of weights for the same shape.
C12_GlyphIdentifiesShape ==
    (symbol # None /\ SpansBothAxes(junction)) =>
        \A k \in Junctions :
            /\ (SpansBothAxes(k) /\ SameWeights(junction, k) /\ ~SameShape(junction, k))
                  => GlyphOf(k) # symbol[1]
            /\ (SameShape(junction, k) /\ ~SameWeights(junction, k))
                  => GlyphOf(k) # symbol[1]

\* ---------------------------------------------------------------------------
\* Claims about junctions in the rendered grid, checked under SpecRender
\* ---------------------------------------------------------------------------

\* the cell at (r, c), rows and columns from 0, if the grid has one there
CellAt(r, c) ==
    IF r \in 0..(RowCount - 1) /\ c \in 0..(ColCount - 1) THEN Some(cells[r + 1][c + 1]) ELSE None

\* the two cells flanking the segment that leaves junction (r, c) in direction
\* d, each with its edge facing the other
Flanks(r, c, d) ==
    CASE d = "top" -> <<CellAt(r - 1, c - 1), "right", CellAt(r - 1, c), "left">>
      [] d = "bottom" -> <<CellAt(r, c - 1), "right", CellAt(r, c), "left">>
      [] d = "left" -> <<CellAt(r - 1, c - 1), "bottom", CellAt(r, c - 1), "top">>
      [] d = "right" -> <<CellAt(r - 1, c), "bottom", CellAt(r, c), "top">>

\* some cell flanks that segment
Flanked(r, c, d) == Flanks(r, c, d)[1] # None \/ Flanks(r, c, d)[3] # None

\* the style of that segment: the stronger of the two facing edges, or the
\* edge of the one cell there is
FacingEdge(r, c, d) ==
    LET f == Flanks(r, c, d)
    IN  CASE f[1] # None /\ f[3] # None ->
                Stronger(f[1][1].border_style[f[2]], f[3][1].border_style[f[4]])
          [] f[1] # None /\ f[3] = None -> f[1][1].border_style[f[2]]
          [] f[1] = None /\ f[3] # None -> f[3][1].border_style[f[4]]
          [] OTHER -> "None"

\* the characters of the rendered text that draw that segment
SegmentGlyphs(r, c, d) ==
    LET rendered == SplitLines(out.text)
    IN  CASE d = "top" /\ r >= 1 ->
                {rendered[BorderLineAt(r - 1) + l][SeparatorAt(c)] : l \in 1..RowHeight(r - 1)}
          [] d = "bottom" /\ r < RowCount ->
                {rendered[BorderLineAt(r) + l][SeparatorAt(c)] : l \in 1..RowHeight(r)}
          [] d = "left" /\ c >= 1 ->
                {rendered[BorderLineAt(r)][SeparatorAt(c - 1) + k] : k \in 1..ColWidth(c - 1)}
          [] d = "right" /\ c < ColCount ->
                {rendered[BorderLineAt(r)][SeparatorAt(c) + k] : k \in 1..ColWidth(c)}
          [] OTHER -> {}

\* the arms of junction (r, c) as write_top_border has them computed
ArmsAt(r, c) ==
    LET top_left == get_cell(TheTable, r - 1, c - 1)
        top_right == get_cell(TheTable, r - 1, c)
        left == get_cell(TheTable, r, c - 1)
        cell_ == get(TheTable, r, c)
    IN  [top |-> has_segment(top_left, "right", top_right, "left"),
         left |-> has_segment(top_left, "bottom", left, "top"),
         right |-> has_segment(top_right, "bottom", cell_, "top"),
         bottom |-> has_segment(left, "right", cell_, "left")]

\* C13: in the rendered text of a grid, the junction at (r, c), 0 <= r <= rows
\* and 0 <= c <= columns, has an arm in a direction exactly when a cell flanks
\* the segment in that direction and the merged facing edges (or the one
\* cell's edge at the boundary) are not None, which is exactly when the
\* characters drawn for that segment are not blank; the character at the
\* junction is the glyph of those arms under the weights of the two separators.
C13_JunctionAgrees ==
    (out.done /\ RowCount >= 1 /\ ColCount >= 1) =>
        \A r \in 0..RowCount, c \in 0..ColCount :
            LET arm == ArmsAt(r, c)
            IN  /\ \A d \in Edges :
                    /\ arm[d] <=> (Flanked(r, c, d) /\ FacingEdge(r, c, d) # "None")
                    /\ ~Flanked(r, c, d) => (~arm[d] /\ SegmentGlyphs(r, c, d) = {})
                    /\ \A g \in SegmentGlyphs(r, c, d) : (g # SP) <=> arm[d]
                /\ SplitLines(out.text)[BorderLineAt(r)][SeparatorAt(c)]
                     = get_center_symbol(arm.top, arm.left, arm.right, arm.bottom,
                                         WeightAt(horizontal_separator_styles, r),
                                         WeightAt(vertical_separator_styles, c))

\* a 2 x 2 grid rendered, the right edge of cell (0, 0) None: the segment
\* above the inner junction is blank and the junction is drawn without its
\* top arm
C13_Witness ==
    /\ out.done
    /\ RowCount = 2
    /\ ColCount = 2
    /\ cells[1][1].border_style.right = "None"
    /\ SegmentGlyphs(1, 1, "top") = {SP}
    /\ ArmsAt(1, 1) = [top |-> FALSE, left |-> TRUE, right |-> TRUE, bottom |-> TRUE]
    /\ SplitLines(out.text)[BorderLineAt(1)][SeparatorAt(1)] \in {"U252C", "U2564", "U2565", "U2566"}

\* a corner of the table rendered without the arm along the outline: the top
\* edge of cell (0, 0) is None
C13_WitnessCorner ==
    /\ out.done
    /\ RowCount >= 1
    /\ ColCount >= 1
    /\ cells[1][1].border_style.top = "None"
    /\ cells[1][1].border_style.left # "None"
    /\ ArmsAt(0, 0) = [top |-> FALSE, left |-> FALSE, right |-> FALSE, bottom |-> TRUE]
    /\ SplitLines(out.text)[1][1] \in {"U2577", "U2551"}

====
